---------------------------- MODULE Spec2Model ----------------------------
(***************************************************************************)
(* A model of shadow_master's core: the VAD-driven segment detector        *)
(* (segmenter.segment_audio), the subtitle aligner                         *)
(* (segmenter.align_subtitles / align_all_subtitles), the practice         *)
(* timeline assembler (practice_builder.build_practice_audio), the         *)
(* server's process and segment requests (server.py) and the atempo chain  *)
(* of exporter.change_speed.                                               *)
(*                                                                         *)
(* Byte buffers are modelled as sequences of chunks (a tone, a silence, a  *)
(* slice of the source PCM), each with its byte length; the per-frame      *)
(* speech decisions are the input of the detector and are given            *)
(* run-length encoded.                                                     *)
(***************************************************************************)
EXTENDS Integers, Sequences, FiniteSets, TLC

VARIABLES
    \* ---- segment_audio ----
    preset,         \* the preset name passed to segment_audio
    pcm_bytes,      \* len(pcm_data) of the buffer passed to segment_audio
    vad,            \* what vad.is_speech does on each frame, run-length encoded:
                    \* <<[result, len], ...>>, result "speech", "silence" or "raise"
    runs,           \* the is_speech list, run-length encoded: <<[speech, len], ...>>
    i,              \* loop index of `for i, speech in enumerate(is_speech)`
    in_speech,
    speech_start,
    silence_count,
    segments,       \* list of Segment records
    closed_by,      \* history: for each segment, the branch that appended it
    pc,             \* "entry", "classify", "loop" while frames remain, "done"
                    \* after the return, "raised" after an exception left the call
    \* ---- build_practice_audio ----
    pcm_len,        \* len(pcm_data), in bytes
    tl_segments,    \* the segments argument
    playback_repeats,
    user_repeats,
    output,         \* the bytearray, as a sequence of chunks
    seg_idx,        \* position of `for seg in segments` (1-based)
    phase,          \* "playback" / "user": the inner loop last entered; "returned"
    rep,            \* iterations of that inner loop completed
    \* ---- align_subtitles / align_all_subtitles ----
    api,            \* which of the two functions is being called
    al_segments,    \* the segments argument, updated in place by each call
    captions,       \* align_subtitles: the subtitles list
    subtitles,      \* align_all_subtitles: the mapping, in iteration order,
                    \* as a sequence of [lang, subs]
    calls,          \* history: calls completed on al_segments
    after_first,    \* history: al_segments as the first call left it
    al_given,       \* history: al_segments as passed to the first call
    \* ---- server.py: one audio_id, its registry entry and its cache files ----
    registered,     \* audio_id in audio_registry
    audio,          \* which recording the file at entry['path'] holds
    reg_segments,   \* entry.get('segments'): << >> for None, else <<list>>
    reg_pcm,        \* entry.get('pcm_data'): << >> for None, else <<buffer>>
    cache,          \* index -> the file {audio_id}_seg{index}.wav: << >> when
                    \* it does not exist, else <<slice>>
    proc,           \* the /api/process requests: position and locals of each
    get,            \* the /api/segment request in progress: position, locals
                    \* and response
    gets_started,   \* history: /api/segment requests begun
    \* ---- exporter.py: change_speed / _build_atempo_chain ----
    chain_speed,    \* the speed argument
    remaining,      \* the local `remaining`
    filters,        \* the local list `filters`, each entry by its factor
    chain_pc        \* "change_speed" on entry, "fast" / "slow" at the test
                    \* of each while loop, "fast_body" / "slow_body" in its
                    \* body, "last" before the final append, "built"
                    \* after the return of _build_atempo_chain, "unchanged"
                    \* after change_speed returned pcm_data as it is

segVars == <<preset, pcm_bytes, vad, runs, i, in_speech, speech_start, silence_count,
             segments, closed_by, pc>>

buildVars == <<pcm_len, tl_segments, playback_repeats, user_repeats, output,
               seg_idx, phase, rep>>

alignVars == <<api, al_segments, captions, subtitles, calls, after_first,
               al_given>>

serverVars == <<registered, audio, reg_segments, reg_pcm, cache, proc, get,
                gets_started>>

chainVars == <<chain_speed, remaining, filters, chain_pc>>

vars == <<segVars, buildVars, alignVars, serverVars, chainVars>>

nonSegVars == <<buildVars, alignVars, serverVars, chainVars>>
nonBuildVars == <<segVars, alignVars, serverVars, chainVars>>
nonAlignVars == <<segVars, buildVars, serverVars, chainVars>>
nonServerVars == <<segVars, buildVars, alignVars, chainVars>>
nonChainVars == <<segVars, buildVars, alignVars, serverVars>>

Max(a, b) == IF a >= b THEN a ELSE b
Min(a, b) == IF a <= b THEN a ELSE b

----------------------------------------------------------------------------
(* segmenter.py: constants and presets *)

SAMPLE_RATE == 16000
FRAME_DURATION_MS == 30

PresetNames == {"sentences", "short", "long", "words"}

PRESETS ==
    [p \in PresetNames |->
        CASE p = "sentences" -> [min_ms |-> 500,  max_ms |-> 8000,  silence_ms |-> 700,  pre_buffer_ms |-> 200]
          [] p = "short"     -> [min_ms |-> 500,  max_ms |-> 3000,  silence_ms |-> 500,  pre_buffer_ms |-> 200]
          [] p = "long"      -> [min_ms |-> 1000, max_ms |-> 12000, silence_ms |-> 1000, pre_buffer_ms |-> 300]
          [] p = "words"     -> [min_ms |-> 300,  max_ms |-> 2000,  silence_ms |-> 400,  pre_buffer_ms |-> 150]]

silence_frames_unscaled(p) == PRESETS[p].silence_ms

\* int(silence_ms / FRAME_DURATION_MS): true division, then truncation
silence_frames(p) == PRESETS[p].silence_ms \div FRAME_DURATION_MS

pre_buffer_frames_unscaled(p) == PRESETS[p].pre_buffer_ms

\* int(pre_buffer_ms / FRAME_DURATION_MS)
pre_buffer_frames(p) == PRESETS[p].pre_buffer_ms \div FRAME_DURATION_MS

\* Segment(start_ms=..., end_ms=...): text and texts take their defaults
Segment(start_ms, end_ms) ==
    [start_ms |-> start_ms, end_ms |-> end_ms, text |-> "", texts |-> << >>]

duration_ms(seg) == seg.end_ms - seg.start_ms

----------------------------------------------------------------------------
(* The input of the detector: the list is_speech, run-length encoded. *)

RECURSIVE RunsLen(_)
RunsLen(rs) == IF rs = << >> THEN 0 ELSE Head(rs).len + RunsLen(Tail(rs))

\* len(is_speech)
NumFrames == RunsLen(runs)

RECURSIVE RunAt(_, _)
RunAt(rs, k) == IF k < Head(rs).len THEN Head(rs).speech
                ELSE RunAt(Tail(rs), k - Head(rs).len)

\* is_speech[k]
IsSpeech(k) == RunAt(runs, k)

----------------------------------------------------------------------------
(* segment_audio: the preset lookup and the classification of the frames.  *)

preset_found_or_default(p) == TRUE

\* params = PRESETS[preset] finds the key
preset_found(p) == p \in DOMAIN PRESETS

\* lines 62-68: the preset's parameters are read, the Vad is made
Lookup ==
    /\ pc = "entry" /\ preset_found(preset)
    /\ pc' = "classify"
    /\ UNCHANGED <<preset, pcm_bytes, vad, runs, i, in_speech, speech_start, silence_count,
                   segments, closed_by>>
    /\ UNCHANGED nonSegVars

\* line 62: PRESETS[preset] raises KeyError, which leaves segment_audio
RaiseKeyError ==
    /\ pc = "entry" /\ ~preset_found(preset)
    /\ pc' = "raised"
    /\ UNCHANGED <<preset, pcm_bytes, vad, runs, i, in_speech, speech_start, silence_count,
                   segments, closed_by>>
    /\ UNCHANGED nonSegVars

classified_fail_closed(result) == result # "silence"

\* lines 80-83: the value appended to is_speech for a frame; False when
\* vad.is_speech raises
classified(result) == result = "speech"

frame_size_in_samples == (SAMPLE_RATE * FRAME_DURATION_MS) \div 1000

\* frame_size = int(SAMPLE_RATE * FRAME_DURATION_MS / 1000) * 2
frame_size == ((SAMPLE_RATE * FRAME_DURATION_MS) \div 1000) * 2

\* len(range(0, stop, step)) for a positive step
range_len(stop, step) == IF stop <= 0 THEN 0 ELSE (stop + step - 1) \div step

\* len(pcm_data[a:a + frame_size]) for a buffer of n bytes
slice_len(n, a) == Min(a + frame_size, n) - Min(a, n)

\* lines 71-75: the offsets a of the range for which the slice is appended
\* to frames
frame_offsets(n) ==
    { a \in { k * frame_size :
                k \in 0..(range_len(n - frame_size + 1, frame_size) - 1) } :
        slice_len(n, a) = frame_size }

\* the classifier's outcomes on the first n frames; a frame that vs does not
\* describe is answered "silence"
RECURSIVE TakeFrames(_, _)
TakeFrames(vs, n) ==
    IF n <= 0 THEN << >>
    ELSE IF vs = << >> THEN <<[result |-> "silence", len |-> n]>>
    ELSE IF Head(vs).len >= n THEN <<[result |-> Head(vs).result, len |-> n]>>
    ELSE <<Head(vs)>> \o TakeFrames(Tail(vs), n - Head(vs).len)

\* lines 70-83: the buffer is cut into frames; "Classify each frame as speech
\* or silence"
Classify ==
    /\ pc = "classify"
    /\ LET outcomes == TakeFrames(vad, Cardinality(frame_offsets(pcm_bytes)))
       IN  runs' = [k \in 1..Len(outcomes) |->
                      [speech |-> classified(outcomes[k].result),
                       len |-> outcomes[k].len]]
    /\ pc' = "loop"
    /\ UNCHANGED <<preset, pcm_bytes, vad, i, in_speech, speech_start, silence_count,
                   segments, closed_by>>
    /\ UNCHANGED nonSegVars

----------------------------------------------------------------------------
(* segment_audio: the loop over the frame decisions, one action per        *)
(* iteration (split by the branch the iteration takes), and the handling   *)
(* of trailing speech followed by the return.                              *)

\* current_duration_ms = (i - speech_start) * FRAME_DURATION_MS
current_duration_ms == (i - speech_start) * FRAME_DURATION_MS

end_frame_at_current(k, count) == k - count

end_frame_untrimmed(k, count) == k

\* end_frame = i - silence_count + 1
end_frame(k, count) == k - count + 1

HysteresisCondCounterOnly == silence_count + 1 >= silence_frames(preset)

\* the test of the `if` at line 105, on the incremented counter
HysteresisCond ==
    /\ silence_count + 1 >= silence_frames(preset)
    /\ current_duration_ms >= PRESETS[preset].min_ms

ForcedCondStrict == current_duration_ms > PRESETS[preset].max_ms

\* the test of the `elif` at line 114
ForcedCond == current_duration_ms >= PRESETS[preset].max_ms

onset_start_unclamped(k, pre_buffer) == k - pre_buffer

\* speech_start = max(0, i - pre_buffer_frames)
onset_start(k, pre_buffer) == Max(0, k - pre_buffer)

counter_kept_after_speech(count) == count

\* line 99: silence_count = 0
counter_after_speech(count) == 0

\* if speech: (lines 95-99)
SpeechFrame ==
    /\ pc = "loop" /\ i < NumFrames /\ IsSpeech(i)
    /\ speech_start' = IF ~in_speech
                       THEN onset_start(i, pre_buffer_frames(preset))
                       ELSE speech_start
    /\ in_speech' = TRUE
    /\ silence_count' = counter_after_speech(silence_count)
    /\ i' = i + 1
    /\ UNCHANGED <<preset, pcm_bytes, vad, runs, segments, closed_by, pc>>
    /\ UNCHANGED nonSegVars

\* else: with in_speech false, the iteration changes nothing
SilenceFrame ==
    /\ pc = "loop" /\ i < NumFrames /\ ~IsSpeech(i) /\ ~in_speech
    /\ i' = i + 1
    /\ UNCHANGED <<preset, pcm_bytes, vad, runs, in_speech, speech_start, silence_count,
                   segments, closed_by, pc>>
    /\ UNCHANGED nonSegVars

\* lines 105-113: "End segment"
HysteresisClose ==
    /\ pc = "loop" /\ i < NumFrames /\ ~IsSpeech(i) /\ in_speech
    /\ HysteresisCond
    /\ segments' = Append(segments,
                      Segment(speech_start * FRAME_DURATION_MS,
                              end_frame(i, silence_count + 1) * FRAME_DURATION_MS))
    /\ closed_by' = Append(closed_by, "hysteresis")
    /\ in_speech' = FALSE
    /\ silence_count' = 0
    /\ i' = i + 1
    /\ UNCHANGED <<preset, pcm_bytes, vad, runs, speech_start, pc>>
    /\ UNCHANGED nonSegVars

\* lines 114-121: "Force split at max duration"
ForcedSplit ==
    /\ pc = "loop" /\ i < NumFrames /\ ~IsSpeech(i) /\ in_speech
    /\ ~HysteresisCond /\ ForcedCond
    /\ segments' = Append(segments,
                      Segment(speech_start * FRAME_DURATION_MS,
                              i * FRAME_DURATION_MS))
    /\ closed_by' = Append(closed_by, "forced")
    /\ in_speech' = FALSE
    /\ silence_count' = 0
    /\ i' = i + 1
    /\ UNCHANGED <<preset, pcm_bytes, vad, runs, speech_start, pc>>
    /\ UNCHANGED nonSegVars

\* lines 101-102 with neither branch taken: only the counter moves
PauseFrame ==
    /\ pc = "loop" /\ i < NumFrames /\ ~IsSpeech(i) /\ in_speech
    /\ ~HysteresisCond /\ ~ForcedCond
    /\ silence_count' = silence_count + 1
    /\ i' = i + 1
    /\ UNCHANGED <<preset, pcm_bytes, vad, runs, in_speech, speech_start, segments,
                   closed_by, pc>>
    /\ UNCHANGED nonSegVars

trailing_speech_dropped(open, duration, min_ms) == FALSE

trailing_speech_in_any_state(open, duration, min_ms) == duration >= min_ms

trailing_speech_strict(open, duration, min_ms) == open /\ duration > min_ms

\* lines 124-127: `if in_speech:` and, inside it, `if duration_ms >= min_ms:`
trailing_speech(open, duration, min_ms) == open /\ duration >= min_ms

\* lines 123-133: "Handle trailing speech", then return segments
Flush ==
    /\ pc = "loop" /\ i = NumFrames
    /\ LET end_ms == NumFrames * FRAME_DURATION_MS
           dur    == end_ms - speech_start * FRAME_DURATION_MS
       IN  IF trailing_speech(in_speech, dur, PRESETS[preset].min_ms)
           THEN /\ segments' = Append(segments,
                                 Segment(speech_start * FRAME_DURATION_MS, end_ms))
                /\ closed_by' = Append(closed_by, "flush")
           ELSE UNCHANGED <<segments, closed_by>>
    /\ pc' = "done"
    /\ UNCHANGED <<preset, pcm_bytes, vad, runs, i, in_speech, speech_start, silence_count>>
    /\ UNCHANGED nonSegVars

----------------------------------------------------------------------------
(* The frame-decision sequences the detector is run on: up to MaxRuns      *)
(* alternating runs of speech and non-speech, their lengths taken from the *)
(* preset's own thresholds, and the 9000 ms monologue of Scenario C.       *)
(* Further inputs: the second of silence of Scenario A, the 5000 ms of     *)
(* speech and trailing pause of Scenario B, the speech run after which the *)
(* silence counter and the elapsed time reach their thresholds on the same *)
(* frame, inputs on which the classifier raises, and a preset name that is *)
(* not in PRESETS.                                                         *)

MaxRuns == 3

\* the first frame count whose duration reaches max_ms
max_frames(p) == (PRESETS[p].max_ms + FRAME_DURATION_MS - 1) \div FRAME_DURATION_MS

RunLens(p) == {1, pre_buffer_frames(p), silence_frames(p), max_frames(p)}

Run(speech, len) == [speech |-> speech, len |-> len]

RECURSIVE RunSeqs(_, _, _)
RunSeqs(p, first, n) ==
    IF n = 0 THEN {<< >>}
    ELSE {<< >>} \cup
         { <<Run(first, l)>> \o rest :
             l \in RunLens(p), rest \in RunSeqs(p, ~first, n - 1) }

ScenarioC == <<Run(TRUE, 9000 \div FRAME_DURATION_MS)>>

ScenarioA == <<Run(FALSE, 1000 \div FRAME_DURATION_MS)>>

\* speech of about 5000 ms (166 or 167 frames), then 720 ms or more of silence
ScenarioB ==
    { <<Run(TRUE, s), Run(FALSE, n)>> :
        s \in {5000 \div FRAME_DURATION_MS, 5000 \div FRAME_DURATION_MS + 1},
        n \in {700 \div FRAME_DURATION_MS + 1, 1000 \div FRAME_DURATION_MS} }

\* from frame 0: the frame on which the counter reaches silence_frames is the
\* frame on which the elapsed time reaches max_ms
BothThresholds(p) ==
    <<Run(TRUE, max_frames(p) - silence_frames(p) + 1), Run(FALSE, silence_frames(p))>>

\* from frame 0: the elapsed time reaches max_ms on the second frame of the
\* pause
LateForced(p) == <<Run(TRUE, max_frames(p) - 1), Run(FALSE, 2)>>

\* two pauses, each one frame short of silence_frames, with speech between
\* and after them
Refreshed(p) ==
    <<Run(TRUE, 1), Run(FALSE, silence_frames(p) - 1),
      Run(TRUE, 1), Run(FALSE, silence_frames(p) - 1), Run(TRUE, 1)>>

Inputs(p) ==
    RunSeqs(p, TRUE, MaxRuns) \cup RunSeqs(p, FALSE, MaxRuns)
        \cup (IF p = "sentences" THEN {ScenarioC} \cup ScenarioB ELSE {})
        \cup {ScenarioA, BothThresholds(p), LateForced(p), Refreshed(p)}

VadRun(result, len) == [result |-> result, len |-> len]

\* the classifier answers on every frame
Answered(rs) ==
    [k \in 1..Len(rs) |->
        VadRun(IF rs[k].speech THEN "speech" ELSE "silence", rs[k].len)]

\* the classifier raises on the frames that are not speech
Raising(rs) ==
    [k \in 1..Len(rs) |->
        VadRun(IF rs[k].speech THEN "speech" ELSE "raise", rs[k].len)]

VadInputs(p) ==
    {Answered(rs) : rs \in Inputs(p)}
        \cup {Raising(rs) : rs \in RunSeqs(p, TRUE, MaxRuns - 1)
                                    \cup RunSeqs(p, FALSE, MaxRuns - 1)}

UnknownPresets == {"paragraphs"}

UnknownPresetInputs == {<< >>, Answered(ScenarioA), Answered(ScenarioC)}

\* the bytes after the last whole frame: none, and for the streams of at
\* most one run also the shortest and the longest remainder
Remainders(vs) == IF Len(vs) <= 1 THEN {0, 1, frame_size - 1} ELSE {0}

\* the buffer lengths that hold the frames vs describes
BufferLens(vs) == { RunsLen(vs) * frame_size + r : r \in Remainders(vs) }

\* segment_audio called: the locals as lines 89-92 set them
InitSeg(ps, vs, n) ==
    /\ preset = ps
    /\ pcm_bytes = n
    /\ vad = vs
    /\ runs = << >>
    /\ i = 0
    /\ in_speech = FALSE
    /\ speech_start = 0
    /\ silence_count = 0
    /\ segments = << >>
    /\ closed_by = << >>
    /\ pc = "entry"

\* no call of segment_audio in progress
IdleSeg ==
    /\ InitSeg("sentences", << >>, 0)

\* no call of build_practice_audio in progress
IdleBuild ==
    /\ pcm_len = 0
    /\ tl_segments = << >>
    /\ playback_repeats = 0
    /\ user_repeats = 0
    /\ output = << >>
    /\ seg_idx = 1
    /\ phase = "idle"
    /\ rep = 0

\* no call of align_subtitles or align_all_subtitles in progress
IdleAlign ==
    /\ api = "idle"
    /\ al_segments = << >>
    /\ captions = << >>
    /\ subtitles = << >>
    /\ calls = 0
    /\ after_first = << >>
    /\ al_given = << >>

\* the server is not running
IdleServer ==
    /\ registered = FALSE
    /\ audio = "quiet"
    /\ reg_segments = << >>
    /\ reg_pcm = << >>
    /\ cache = << >>
    /\ proc = << >>
    /\ get = [pc |-> "off"]
    /\ gets_started = 0

\* no call of change_speed in progress
IdleChain ==
    /\ chain_speed = [num |-> 1, den |-> 1]
    /\ remaining = [num |-> 1, den |-> 1]
    /\ filters = << >>
    /\ chain_pc = "idle"

Init ==
    /\ \/ \E ps \in PresetNames : \E vs \in VadInputs(ps) :
             \E n \in BufferLens(vs) : InitSeg(ps, vs, n)
       \/ \E ps \in UnknownPresets : \E vs \in UnknownPresetInputs :
             \E n \in BufferLens(vs) : InitSeg(ps, vs, n)
    /\ IdleBuild
    /\ IdleAlign
    /\ IdleServer
    /\ IdleChain

Next ==
    \/ Lookup
    \/ RaiseKeyError
    \/ Classify
    \/ SpeechFrame
    \/ SilenceFrame
    \/ HysteresisClose
    \/ ForcedSplit
    \/ PauseFrame
    \/ Flush

Spec == Init /\ [][Next]_vars

----------------------------------------------------------------------------
(* Properties of the segment detector *)

SegIdx == 1..Len(segments)
Returned == pc = "done"

\* C1 (as claimed): every segment closed by hysteresis has
\* min_ms <= duration_ms <= max_ms.  The code tests the elapsed time up to the
\* current frame, trailing silence run included, but emits the segment trimmed
\* to the onset of that run, so the emitted duration can be below min_ms.
C1_HysteresisDurationInRange ==
    \A k \in SegIdx :
        closed_by[k] = "hysteresis" =>
            /\ PRESETS[preset].min_ms <= duration_ms(segments[k])
            /\ duration_ms(segments[k]) <= PRESETS[preset].max_ms

\* C2 (as claimed): in the returned list no two consecutive segments overlap,
\* start_ms[k+1] >= end_ms[k].  After a forced split at frame i the next onset
\* is moved back by the pre-buffer to before i.
C2_NoOverlap ==
    Returned =>
        \A k \in SegIdx :
            k + 1 \in SegIdx => segments[k + 1].start_ms >= segments[k].end_ms

\* C3: in the returned list the segments are in strictly ascending order of
\* start_ms.
C3_AscendingStart ==
    Returned =>
        \A k \in SegIdx :
            k + 1 \in SegIdx => segments[k].start_ms < segments[k + 1].start_ms

\* C3 witness: a returned list of two segments, the first closed by a forced
\* split and the second begun by the pre-buffer before the first one's end.
C3_Witness ==
    /\ Returned
    /\ Len(segments) = 2
    /\ closed_by[1] = "forced"
    /\ segments[2].start_ms < segments[1].end_ms

\* C4 (as claimed): no returned segment is longer than max_ms rounded up to a
\* whole frame.  The cap is only tested on non-speech frames.
C4_MaxDurationCap ==
    Returned =>
        \A k \in SegIdx :
            duration_ms(segments[k]) <= max_frames(preset) * FRAME_DURATION_MS

\* C5 (as claimed): Scenario C, 9000 ms of unbroken speech under preset
\* sentences, returns two segments: 0..8000 ms and one starting at 8000 ms.
C5_ScenarioCSplit ==
    (Returned /\ preset = "sentences" /\ runs = ScenarioC) =>
        /\ Len(segments) = 2
        /\ segments[1].start_ms = 0
        /\ duration_ms(segments[1]) = 8000
        /\ segments[2].start_ms = 8000

\* C6: every emitted segment, however it was closed, has end_ms > start_ms.
C6_EndAfterStart ==
    \A k \in SegIdx : segments[k].end_ms > segments[k].start_ms

\* C6 witness: a returned list holding a hysteresis-closed segment of a single
\* frame (the shortest the detector emits) followed by a flushed one.
C6_Witness ==
    /\ Returned
    /\ closed_by = <<"hysteresis", "flush">>
    /\ duration_ms(segments[1]) = FRAME_DURATION_MS

\* C11: for every preset, a frame-decision sequence without a speech frame,
\* the empty one included, makes segment_audio return zero segments.
C11_NoSpeechNoSegments ==
    (Returned /\ \A k \in 1..Len(runs) : ~runs[k].speech) => segments = << >>

\* C11 witness: the call has returned on the second of silence of Scenario A.
C11_Witness ==
    /\ Returned
    /\ runs = ScenarioA
    /\ segments = << >>

\* C12: Scenario B.  Under preset sentences, a stream of one run of about
\* 5000 ms of speech followed by 700 ms or more of non-speech returns exactly
\* one segment, from 0 to the onset of the pause.
C12_ScenarioBOneSegment ==
    ( /\ Returned
      /\ preset = "sentences"
      /\ Len(runs) = 2
      /\ runs[1].speech /\ ~runs[2].speech
      /\ runs[1].len \in {5000 \div FRAME_DURATION_MS, 5000 \div FRAME_DURATION_MS + 1}
      /\ runs[2].len * FRAME_DURATION_MS >= 700 )
    => segments = <<Segment(0, runs[1].len * FRAME_DURATION_MS)>>

\* C12 witness: the call has returned on 5010 ms of speech and 720 ms of
\* pause with the one segment 0..5010.
C12_Witness ==
    /\ Returned
    /\ preset = "sentences"
    /\ runs = <<Run(TRUE, 167), Run(FALSE, 24)>>
    /\ segments = <<Segment(0, 5010)>>

\* C13: a frame on which the classifier raises is recorded as non-speech, the
\* frames after it are classified as usual, the call does not end with the
\* classifier's error, and a stream on which every classification raises
\* returns zero segments.
C13_FailOpen ==
    /\ pc \in {"loop", "done"} =>
          /\ Len(runs) = Len(vad)
          /\ \A k \in 1..Len(vad) :
                /\ runs[k].len = vad[k].len
                /\ runs[k].speech = (vad[k].result = "speech")
    /\ pc = "raised" => preset \notin PresetNames
    /\ (Returned /\ \A k \in 1..Len(vad) : vad[k].result = "raise")
          => segments = << >>

\* C13 witness: the call has returned segments on a stream on which the
\* classifier raised on some frames and answered speech on later ones.
C13_Witness ==
    /\ Returned
    /\ \E k \in 1..Len(vad) :
          /\ vad[k].result = "raise"
          /\ k + 1 \in 1..Len(vad) /\ vad[k + 1].result = "speech"
    /\ segments # << >>

\* C14: when the frames are exhausted, a final segment from the provisional
\* start to the end of the stream is appended if and only if the detector is
\* still in speech and that duration is >= min_ms; otherwise the segments
\* emitted earlier are returned unchanged.
C14_FlushIffMinDuration ==
    [][(pc = "loop" /\ pc' = "done") =>
          LET end_ms == NumFrames * FRAME_DURATION_MS
              start_ms == speech_start * FRAME_DURATION_MS
          IN  IF in_speech /\ end_ms - start_ms >= PRESETS[preset].min_ms
              THEN segments' = Append(segments, Segment(start_ms, end_ms))
              ELSE segments' = segments]_vars

\* C14 witness: the call has returned with the detector still in speech, the
\* open utterance shorter than min_ms and discarded, an earlier segment kept.
C14_Witness ==
    /\ Returned
    /\ in_speech
    /\ (NumFrames - speech_start) * FRAME_DURATION_MS < PRESETS[preset].min_ms
    /\ Len(segments) = 1
    /\ closed_by = <<"hysteresis">>

\* C17: a call with a preset name outside sentences, short, long, words ends
\* with an error before any frame is classified or any segment is produced,
\* and no other preset's parameters are used.
C17_UnknownPresetFails ==
    preset \notin PresetNames =>
        /\ pc \in {"entry", "raised"}
        /\ runs = << >>
        /\ segments = << >>

\* C17 witness: the call with the unknown name, given frames, has raised.
C17_Witness ==
    /\ preset \notin PresetNames
    /\ pc = "raised"
    /\ vad # << >>

\* a non-speech frame is looked at while the detector is in speech
PauseStep == pc = "loop" /\ i < NumFrames /\ ~IsSpeech(i) /\ in_speech

\* the consecutive-silence counter with the current frame counted
Counter == silence_count + 1

\* the time from the provisional start to the current frame
Elapsed == (i - speech_start) * FRAME_DURATION_MS

\* the index of the first frame of the run that holds frame k
RECURSIVE RunOnset(_, _, _)
RunOnset(rs, k, before) ==
    IF k < Head(rs).len THEN before
    ELSE RunOnset(Tail(rs), k - Head(rs).len, before + Head(rs).len)

\* C18: in speech, on a non-speech frame i where the hysteresis condition
\* does not hold and the elapsed time has reached max_ms, the segment is closed
\* with end_ms = i * 30 whatever the counter, the detector leaves speech and
\* the counter is reset; where both conditions hold the segment is closed as
\* the hysteresis close does, at (i - c + 1) * 30.
C18_ForcedSplit ==
    [][PauseStep =>
          LET hysteresis == /\ Counter >= silence_frames(preset)
                            /\ Elapsed >= PRESETS[preset].min_ms
              reached    == Elapsed >= PRESETS[preset].max_ms
              start_ms   == speech_start * FRAME_DURATION_MS
          IN  /\ (~hysteresis /\ reached) =>
                    /\ segments' = Append(segments,
                                      Segment(start_ms, i * FRAME_DURATION_MS))
                    /\ ~in_speech'
                    /\ silence_count' = 0
              /\ (hysteresis /\ reached) =>
                    segments' = Append(segments,
                                   Segment(start_ms,
                                           (i - Counter + 1) * FRAME_DURATION_MS))
      ]_vars

\* C18 witness: a forced split has just closed a segment on the second frame
\* of a pause, at that frame's boundary.
C18_Witness ==
    /\ pc = "loop"
    /\ runs = LateForced(preset)
    /\ i = NumFrames
    /\ ~in_speech /\ silence_count = 0
    /\ closed_by = <<"forced">>
    /\ segments[1].end_ms = (i - 1) * FRAME_DURATION_MS

\* C19: a hysteresis close at non-speech frame i with counter c appends a
\* segment with end_ms = (i - c + 1) * 30, which is the first frame of the
\* trailing non-speech run; the detector leaves speech and the counter is
\* reset.
C19_HysteresisBoundary ==
    [][( /\ PauseStep
         /\ Counter >= silence_frames(preset)
         /\ Elapsed >= PRESETS[preset].min_ms ) =>
          /\ segments' = Append(segments,
                            Segment(speech_start * FRAME_DURATION_MS,
                                    (i - Counter + 1) * FRAME_DURATION_MS))
          /\ i - Counter + 1 = RunOnset(runs, i, 0)
          /\ ~in_speech'
          /\ silence_count' = 0
      ]_vars

\* C19 witness: a hysteresis close has just happened several frames into a
\* pause, and the segment ends where the pause began.
C19_Witness ==
    /\ pc = "loop"
    /\ i > 0 /\ ~IsSpeech(i - 1)
    /\ ~in_speech /\ silence_count = 0
    /\ closed_by # << >> /\ closed_by[Len(closed_by)] = "hysteresis"
    /\ segments[Len(segments)].end_ms = RunOnset(runs, i - 1, 0) * FRAME_DURATION_MS
    /\ RunOnset(runs, i - 1, 0) < i - 1

\* C20: in speech, a non-speech frame emits a segment only if the counter has
\* reached silence_frames and the elapsed time min_ms together (or the elapsed
\* time has reached max_ms); with the counter at silence_frames or more and the
\* elapsed time below min_ms and max_ms the detector stays in speech, keeps
\* the provisional start, counts the frame and emits nothing.
C20_HysteresisNeedsBoth ==
    [][PauseStep =>
          /\ segments' # segments =>
                \/ /\ Counter >= silence_frames(preset)
                   /\ Elapsed >= PRESETS[preset].min_ms
                \/ Elapsed >= PRESETS[preset].max_ms
          /\ ( /\ Counter >= silence_frames(preset)
               /\ Elapsed < PRESETS[preset].min_ms
               /\ Elapsed < PRESETS[preset].max_ms ) =>
                /\ in_speech'
                /\ speech_start' = speech_start
                /\ silence_count' = Counter
                /\ segments' = segments
      ]_vars

\* C20 witness: the counter has reached silence_frames with the elapsed time
\* still below min_ms, and the detector is in speech with nothing emitted.
C20_Witness ==
    /\ pc = "loop"
    /\ in_speech
    /\ silence_count >= silence_frames(preset)
    /\ (i - 1 - speech_start) * FRAME_DURATION_MS < PRESETS[preset].min_ms
    /\ segments = << >>

\* a speech frame is looked at
SpeechStep == pc = "loop" /\ i < NumFrames /\ IsSpeech(i)

\* C21: a speech frame while in speech resets the consecutive-silence counter
\* to 0 and closes nothing, and a segment is closed by hysteresis only on a
\* frame that completes silence_frames or more consecutive non-speech frames:
\* pauses shorter than silence_frames, separated by speech, never close it.
C21_SpeechRefreshesWindow ==
    [][/\ (SpeechStep /\ in_speech) =>
             /\ silence_count' = 0
             /\ in_speech'
             /\ speech_start' = speech_start
             /\ segments' = segments
       /\ (PauseStep /\ closed_by' = Append(closed_by, "hysteresis")) =>
             i - RunOnset(runs, i, 0) + 1 >= silence_frames(preset)
      ]_vars

\* C21 witness: at the end of two pauses of silence_frames - 1 frames each,
\* separated by one speech frame, the detector is still in speech, the
\* counter shows the second pause alone, and nothing has been emitted.
C21_Witness ==
    /\ pc = "loop"
    /\ runs = Refreshed(preset)
    /\ i = NumFrames - 1
    /\ in_speech
    /\ silence_count = silence_frames(preset) - 1
    /\ segments = << >>

\* C22: on a speech frame i while in silence the detector enters speech with
\* provisional start max(0, i - pre_buffer_frames) and the counter at 0; the
\* start is never negative and never more than pre_buffer_frames before i.
C22_OnsetPreBuffer ==
    [][(SpeechStep /\ ~in_speech) =>
          /\ in_speech'
          /\ silence_count' = 0
          /\ speech_start' = IF i - pre_buffer_frames(preset) < 0
                             THEN 0 ELSE i - pre_buffer_frames(preset)
          /\ speech_start' >= 0
          /\ i - speech_start' <= pre_buffer_frames(preset)
          /\ segments' = segments
      ]_vars

\* C22 witness: speech begun at frame 1, before a whole pre-buffer has
\* passed: the provisional start is clamped to frame 0.
C22_Witness ==
    /\ pc = "loop"
    /\ i = 2
    /\ ~IsSpeech(0) /\ IsSpeech(1)
    /\ in_speech
    /\ speech_start = 0
    /\ silence_count = 0

\* round(a / b) for non-negative a and positive b
RoundDiv(a, b) == (2 * a + b) \div (2 * b)

\* C23 (as claimed): for each preset, silence_frames = round(silence_ms / 30)
\* and pre_buffer_frames = round(pre_buffer_ms / 30).  The code truncates:
\* int(500 / 30) = 16, not 17, and int(200 / 30) = 6, not 7.
C23_ThresholdsRounded ==
    pc \in {"classify", "loop", "done"} =>
        /\ silence_frames(preset) =
              RoundDiv(PRESETS[preset].silence_ms, FRAME_DURATION_MS)
        /\ pre_buffer_frames(preset) =
              RoundDiv(PRESETS[preset].pre_buffer_ms, FRAME_DURATION_MS)

\* f = sample_rate x frame_ms / 1000 x 2 bytes
FrameBytes == 960

\* C24: a buffer of n bytes is cut into exactly floor(n / f) frames, the k-th
\* being the f bytes from k * f, so the frames are whole, in buffer order and
\* do not overlap (looked at when the loop over the decisions begins); the
\* remainder after the last one is not classified; a buffer shorter than f
\* gives no frames and no segments.
C24_FrameSplitting ==
    /\ (pc = "loop" /\ i = 0) =>
          /\ frame_offsets(pcm_bytes) = { k * FrameBytes : k \in 0..(NumFrames - 1) }
          /\ \A a \in frame_offsets(pcm_bytes) :
                /\ slice_len(pcm_bytes, a) = FrameBytes
                /\ a + FrameBytes <= pcm_bytes
    /\ pc \in {"loop", "done"} =>
          /\ NumFrames = pcm_bytes \div FrameBytes
          /\ pcm_bytes - NumFrames * FrameBytes \in 0..(FrameBytes - 1)
          /\ pcm_bytes < FrameBytes => (NumFrames = 0 /\ segments = << >>)

\* C24 witness: a buffer of whole frames and 959 bytes more has been
\* segmented, and a segment ends at the last whole frame.
C24_Witness ==
    /\ Returned
    /\ NumFrames > 0
    /\ pcm_bytes = NumFrames * FrameBytes + FrameBytes - 1
    /\ segments # << >>
    /\ segments[Len(segments)].end_ms = NumFrames * FRAME_DURATION_MS

\* frame f lies inside [start_ms, end_ms) of a returned segment
Covered(f) ==
    \E k \in SegIdx :
        /\ segments[k].start_ms <= f * FRAME_DURATION_MS
        /\ (f + 1) * FRAME_DURATION_MS <= segments[k].end_ms

\* the utterance still open at the end of the stream was shorter than min_ms
\* and was dropped
OpenDropped ==
    /\ in_speech
    /\ (NumFrames - speech_start) * FRAME_DURATION_MS < PRESETS[preset].min_ms

\* C25: in the returned list every frame classified as speech lies inside a
\* segment, except the frames of a final utterance that was still open at the
\* end of the stream and was dropped for being shorter than min_ms.
C25_NoSpeechLost ==
    Returned =>
        \A f \in 0..(NumFrames - 1) :
            IsSpeech(f) => \/ Covered(f)
                           \/ OpenDropped /\ f >= speech_start

\* C25 witness: a returned list with a segment that covers the speech before
\* a long pause, and after it a final utterance dropped at the end of the
\* stream, whose last speech frame is in no segment.
C25_Witness ==
    /\ Returned
    /\ closed_by = <<"hysteresis">>
    /\ OpenDropped
    /\ IsSpeech(NumFrames - 1)
    /\ ~Covered(NumFrames - 1)
    /\ IsSpeech(0) /\ Covered(0)

----------------------------------------------------------------------------
(* beep_generator.py and practice_builder.py.  A bytes object is modelled  *)
(* as a sequence of chunks; a chunk is a tone of one frequency, a run of   *)
(* zero samples, or a slice of pcm_data, and carries its length in bytes.  *)
(* The beep volume scales sample values only and is left out.              *)

FREQ_PLAYBACK == 880
FREQ_YOUR_TURN == 1047
FREQ_DONE == 660
BEEP_DURATION_MS == 150
DOUBLE_BEEP_GAP_MS == 100
PAUSE_AFTER_BEEP_MS == 300
PAUSE_AFTER_SEGMENT_MS == 300
PAUSE_AFTER_DONE_MS == 500

RECURSIVE ByteLen(_)
\* len() of a bytes object
ByteLen(buf) == IF buf = << >> THEN 0 ELSE Head(buf).bytes + ByteLen(Tail(buf))

\* _generate_tone: int(SAMPLE_RATE * duration_ms / 1000) samples packed as '<h'
generate_tone(frequency, ms) ==
    <<[kind |-> "tone", freq |-> frequency, from |-> 0,
       bytes |-> ((SAMPLE_RATE * ms) \div 1000) * 2]>>

silence_one_byte_per_sample(ms) ==
    <<[kind |-> "silence", freq |-> 0, from |-> 0,
       bytes |-> Max(0, (SAMPLE_RATE * ms) \div 1000)]>>

\* _silence: b'\x00\x00' * int(SAMPLE_RATE * duration_ms / 1000)
silence(ms) ==
    <<[kind |-> "silence", freq |-> 0, from |-> 0,
       bytes |-> 2 * Max(0, (SAMPLE_RATE * ms) \div 1000)]>>

playback_beep == generate_tone(FREQ_PLAYBACK, BEEP_DURATION_MS)

\* beep + gap + beep
your_turn_beep ==
    generate_tone(FREQ_YOUR_TURN, BEEP_DURATION_MS)
        \o silence(DOUBLE_BEEP_GAP_MS)
        \o generate_tone(FREQ_YOUR_TURN, BEEP_DURATION_MS)

done_beep == generate_tone(FREQ_DONE, BEEP_DURATION_MS)

extract_segment_pcm_per_sample(n, start_ms, end_ms) ==
    LET bytes_per_ms == SAMPLE_RATE \div 1000
        lo == Min(start_ms * bytes_per_ms, n)
        hi == Min(end_ms * bytes_per_ms, n)
    IN  <<[kind |-> "pcm", freq |-> 0, from |-> lo, bytes |-> Max(0, hi - lo)]>>

\* extract_segment_pcm: pcm_data[start_byte:end_byte], a slice clamped to the
\* buffer (times are non-negative here)
extract_segment_pcm(n, start_ms, end_ms) ==
    LET bytes_per_ms == (SAMPLE_RATE * 2) \div 1000
        lo == Min(start_ms * bytes_per_ms, n)
        hi == Min(end_ms * bytes_per_ms, n)
    IN  <<[kind |-> "pcm", freq |-> 0, from |-> lo, bytes |-> Max(0, hi - lo)]>>

pause_after_beep == silence(PAUSE_AFTER_BEEP_MS)
pause_after_segment == silence(PAUSE_AFTER_SEGMENT_MS)
pause_after_done == silence(PAUSE_AFTER_DONE_MS)

segment_pcm(seg) == extract_segment_pcm(pcm_len, seg.start_ms, seg.end_ms)
segment_silence(seg) == silence(duration_ms(seg))

playback_extends_segment_first(seg) ==
    playback_beep \o segment_pcm(seg) \o pause_after_beep \o pause_after_segment

\* the four extends of one playback iteration (lines 46-49)
playback_extends(seg) ==
    playback_beep \o pause_after_beep \o segment_pcm(seg) \o pause_after_segment

\* the four extends of one user-turn iteration (lines 53-56)
user_extends(seg) ==
    your_turn_beep \o pause_after_beep \o segment_silence(seg) \o pause_after_segment

\* lines 59-60
done_extends == done_beep \o pause_after_done

InSegments == seg_idx <= Len(tl_segments)

\* `for _ in range(playback_repeats)`: one iteration
PlaybackRepeat ==
    /\ phase = "playback" /\ InSegments /\ rep < playback_repeats
    /\ output' = output \o playback_extends(tl_segments[seg_idx])
    /\ rep' = rep + 1
    /\ UNCHANGED <<pcm_len, tl_segments, playback_repeats, user_repeats,
                   seg_idx, phase>>
    /\ UNCHANGED nonBuildVars

\* `for _ in range(user_repeats)`: one iteration, entered when the playback
\* loop is exhausted
UserRepeat ==
    /\ InSegments
    /\ \/ phase = "playback" /\ rep >= playback_repeats /\ 0 < user_repeats
       \/ phase = "user" /\ rep < user_repeats
    /\ output' = output \o user_extends(tl_segments[seg_idx])
    /\ phase' = "user"
    /\ rep' = IF phase = "user" THEN rep + 1 ELSE 1
    /\ UNCHANGED <<pcm_len, tl_segments, playback_repeats, user_repeats, seg_idx>>
    /\ UNCHANGED nonBuildVars

\* "Done": reached when both inner loops are exhausted; then the next segment
Done ==
    /\ InSegments
    /\ \/ phase = "playback" /\ rep >= playback_repeats /\ user_repeats <= 0
       \/ phase = "user" /\ rep >= user_repeats
    /\ output' = output \o done_extends
    /\ seg_idx' = seg_idx + 1
    /\ phase' = "playback"
    /\ rep' = 0
    /\ UNCHANGED <<pcm_len, tl_segments, playback_repeats, user_repeats>>
    /\ UNCHANGED nonBuildVars

\* return bytes(output)
Return ==
    /\ phase = "playback" /\ ~InSegments
    /\ phase' = "returned"
    /\ UNCHANGED <<pcm_len, tl_segments, playback_repeats, user_repeats, output,
                   seg_idx, rep>>
    /\ UNCHANGED nonBuildVars

(* The calls of build_practice_audio that are run: up to MaxSegments        *)
(* segments with times from SegmentTimes on a buffer of one of PcmLens      *)
(* bytes, each repeat count up to MaxRepeats.                               *)

MaxSegments == 2
MaxRepeats == 2

SegmentTimes == {0, 1000, 2500}
PcmLens == {0, 32000, 80000}

SegmentArgs ==
    { Segment(ab[1], ab[2]) :
        ab \in {t \in SegmentTimes \X SegmentTimes : t[1] <= t[2]} }

RECURSIVE SeqsUpTo(_, _)
SeqsUpTo(S, n) ==
    IF n = 0 THEN {<< >>}
    ELSE {<< >>} \cup { <<x>> \o rest : x \in S, rest \in SeqsUpTo(S, n - 1) }

\* lines 31-38
InitBuild ==
    /\ IdleSeg
    /\ IdleAlign
    /\ IdleServer
    /\ IdleChain
    /\ pcm_len \in PcmLens
    /\ tl_segments \in SeqsUpTo(SegmentArgs, MaxSegments)
    /\ playback_repeats \in 0..MaxRepeats
    /\ user_repeats \in 0..MaxRepeats
    /\ output = << >>
    /\ seg_idx = 1
    /\ phase = "playback"
    /\ rep = 0

NextBuild ==
    \/ PlaybackRepeat
    \/ UserRepeat
    \/ Done
    \/ Return

SpecBuild == InitBuild /\ [][NextBuild]_vars

----------------------------------------------------------------------------
(* Properties of the timeline assembler *)

BuildReturned == phase = "returned"

\* every segment lies inside the buffer
AllInside ==
    \A k \in 1..Len(tl_segments) :
        /\ 0 <= tl_segments[k].start_ms
        /\ tl_segments[k].start_ms <= tl_segments[k].end_ms
        /\ tl_segments[k].end_ms * 32 <= pcm_len

RECURSIVE LawMs(_, _, _)
\* the timeline length law, in ms, with the constants of the claim
LawMs(segs, pr, ur) ==
    IF segs = << >> THEN 0
    ELSE LET seg_len == Head(segs).end_ms - Head(segs).start_ms
         IN  pr * (150 + 300 + seg_len + 300)
               + ur * ((150 + 100 + 150) + 300 + seg_len + 300)
               + 150 + 500
               + LawMs(Tail(segs), pr, ur)

ScenarioE ==
    /\ tl_segments = <<Segment(0, 1000)>>
    /\ playback_repeats = 2
    /\ user_repeats = 1
    /\ pcm_len >= 32000

\* C7: when build_practice_audio returns, for segments inside the buffer, the
\* length of the result is 32 bytes per ms of the sum over the segments of
\* playback_repeats x (150 + 300 + seg_len + 300)
\*   + user_repeats x (400 + 300 + seg_len + 300) + 150 + 500;
\* in Scenario E that is 6150 ms.
C7_TimelineLengthLaw ==
    (BuildReturned /\ AllInside) =>
        /\ ByteLen(output) = 32 * LawMs(tl_segments, playback_repeats, user_repeats)
        /\ ScenarioE => ByteLen(output) = 32 * 6150

\* C7 witness: Scenario E has been assembled and returned.
C7_Witness ==
    /\ BuildReturned
    /\ ScenarioE
    /\ ByteLen(output) = 196800

RECURSIVE Repeat(_, _)
Repeat(n, buf) == IF n <= 0 THEN << >> ELSE buf \o Repeat(n - 1, buf)

Tone(f) == [kind |-> "tone", freq |-> f, from |-> 0, bytes |-> 4800]
Pause(ms) == [kind |-> "silence", freq |-> 0, from |-> 0, bytes |-> 32 * ms]
Slice(seg) == [kind |-> "pcm", freq |-> 0, from |-> 32 * seg.start_ms,
               bytes |-> 32 * (seg.end_ms - seg.start_ms)]

RECURSIVE ExpectedTimeline(_, _, _)
\* the block order of the claim: per segment, the playback blocks, then the
\* user-turn blocks, then the segment-done block
ExpectedTimeline(segs, pr, ur) ==
    IF segs = << >> THEN << >>
    ELSE LET seg == Head(segs)
         IN  Repeat(pr, <<Tone(880), Pause(300), Slice(seg), Pause(300)>>)
               \o Repeat(ur, <<Tone(1047), Pause(100), Tone(1047), Pause(300),
                               Pause(seg.end_ms - seg.start_ms), Pause(300)>>)
               \o <<Tone(660), Pause(500)>>
               \o ExpectedTimeline(Tail(segs), pr, ur)

IsPrefix(a, b) == Len(a) <= Len(b) /\ a = SubSeq(b, 1, Len(a))

\* C8: at every point of the assembly the output is an initial part of the
\* timeline in the claimed order (per segment in list order: playback_repeats
\* x (playback cue, 300 ms, the segment's slice, 300 ms), user_repeats x
\* (double cue, 300 ms, silence of the segment's duration, 300 ms), one
\* (done cue, 500 ms)), and the returned buffer is the whole of it.
C8_BlockOrder ==
    (phase # "idle" /\ AllInside) =>
        LET want == ExpectedTimeline(tl_segments, playback_repeats, user_repeats)
        IN  /\ IsPrefix(output, want)
            /\ BuildReturned => output = want

\* C8 witness: a returned timeline of two segments of different lengths, with
\* two playback repeats and two user repeats each.
C8_Witness ==
    /\ BuildReturned
    /\ tl_segments = <<Segment(0, 1000), Segment(1000, 2500)>>
    /\ playback_repeats = 2
    /\ user_repeats = 2
    /\ pcm_len = 80000
    /\ Len(output) = 2 * (8 + 12 + 2)

----------------------------------------------------------------------------
(* segmenter.py: align_subtitles and align_all_subtitles.  Both update the *)
(* Segment objects of the list in place; a call is one action.  A dict is  *)
(* a function on its key set; the subtitles mapping, whose iteration order *)
(* the code depends on, is a sequence of [lang, subs] with distinct langs. *)

overlap_of_span(seg, sub) ==
    Max(0, Max(seg.end_ms, sub.end_ms) - Min(seg.start_ms, sub.start_ms))

\* overlap = max(0, min(seg.end_ms, sub['end_ms']) - max(seg.start_ms, sub['start_ms']))
overlap(seg, sub) ==
    Max(0, Min(seg.end_ms, sub.end_ms) - Max(seg.start_ms, sub.start_ms))

replaces_best_or_equal(ov, best_overlap) == ov >= best_overlap

\* if overlap > best_overlap:
replaces_best(ov, best_overlap) == ov > best_overlap

RECURSIVE best_scan(_, _, _, _)
\* `for sub in subtitles:` from (best_overlap, best_text)
best_scan(seg, subs, best_overlap, best_text) ==
    IF subs = << >> THEN [best_overlap |-> best_overlap, best_text |-> best_text]
    ELSE LET sub == Head(subs)
             ov  == overlap(seg, sub)
         IN  IF replaces_best(ov, best_overlap)
             THEN best_scan(seg, Tail(subs), ov, sub.text)
             ELSE best_scan(seg, Tail(subs), best_overlap, best_text)

text_appended(old_text, best_text) == old_text \o best_text

\* seg.text = best_text / seg.texts[lang] = best_text: the value stored
text_assigned(old_text, best_text) == best_text

DictPutAlone(d, k, v) == [x \in {k} |-> v]

\* d[k] = v
DictPut(d, k, v) == [x \in (DOMAIN d) \cup {k} |-> IF x = k THEN v ELSE d[x]]

\* the body of `for seg in segments:` of align_subtitles (lines 147-157)
align_segment(seg, subs) ==
    LET b == best_scan(seg, subs, 0, "")
    IN  IF b.best_overlap > 0
        THEN [seg EXCEPT !.text = text_assigned(seg.text, b.best_text)]
        ELSE seg

align_subtitles(segs, subs) ==
    [k \in 1..Len(segs) |-> align_segment(segs[k], subs)]

\* the body of the inner `for seg in segments:` of align_all_subtitles
\* (lines 165-175)
align_segment_lang(seg, lang, subs) ==
    LET b == best_scan(seg, subs, 0, "")
    IN  IF b.best_overlap > 0
        THEN [seg EXCEPT !.texts =
                 DictPut(seg.texts, lang,
                         text_assigned(IF lang \in DOMAIN seg.texts
                                       THEN seg.texts[lang] ELSE "",
                                       b.best_text))]
        ELSE seg

RECURSIVE align_languages(_, _)
\* `for lang, subs in subtitles.items():`
align_languages(segs, items) ==
    IF items = << >> THEN segs
    ELSE align_languages(
            [k \in 1..Len(segs) |->
                align_segment_lang(segs[k], Head(items).lang, Head(items).subs)],
            Tail(items))

set_text_from_last(segs, items) ==
    IF items = << >> THEN segs
    ELSE LET last_lang == items[Len(items)].lang
         IN  [k \in 1..Len(segs) |->
                IF last_lang \in DOMAIN segs[k].texts
                THEN [segs[k] EXCEPT !.text = segs[k].texts[last_lang]]
                ELSE segs[k]]

\* lines 176-181: "Set text from first available language"
set_text_from_first(segs, items) ==
    IF items = << >> THEN segs
    ELSE LET first_lang == Head(items).lang
         IN  [k \in 1..Len(segs) |->
                IF first_lang \in DOMAIN segs[k].texts
                THEN [segs[k] EXCEPT !.text = segs[k].texts[first_lang]]
                ELSE segs[k]]

align_all_subtitles(segs, items) ==
    set_text_from_first(align_languages(segs, items), items)

MaxCalls == 2

\* align_subtitles(segments, subtitles) called on the list
AlignSubtitles ==
    /\ api = "align_subtitles" /\ calls < MaxCalls
    /\ al_segments' = align_subtitles(al_segments, captions)
    /\ calls' = calls + 1
    /\ after_first' = IF calls = 0 THEN al_segments' ELSE after_first
    /\ UNCHANGED <<api, captions, subtitles, al_given>>
    /\ UNCHANGED nonAlignVars

\* align_all_subtitles(segments, subtitles) called on the list
AlignAllSubtitles ==
    /\ api = "align_all_subtitles" /\ calls < MaxCalls
    /\ al_segments' = align_all_subtitles(al_segments, subtitles)
    /\ calls' = calls + 1
    /\ after_first' = IF calls = 0 THEN al_segments' ELSE after_first
    /\ UNCHANGED <<api, captions, subtitles, al_given>>
    /\ UNCHANGED nonAlignVars

(* The calls that are run: up to MaxAlignSegments segments, fresh from the *)
(* detector or carrying text of an earlier alignment, and up to            *)
(* MaxCaptions captions per language.  The caption (1000, 2000, "hello")   *)
(* and the segment (1500, 2500) are those of Scenario D.                   *)

MaxAlignSegments == 2
MaxCaptions == 2

Caption(start_ms, end_ms, text) ==
    [start_ms |-> start_ms, end_ms |-> end_ms, text |-> text]

CaptionsOf(lang) ==
    IF lang = "en"
    THEN {Caption(0, 1000, "zero"), Caption(1000, 2000, "hello"),
          Caption(2000, 2500, "world"), Caption(1000, 2500, "both")}
    ELSE {Caption(1000, 2000, "hola"), Caption(2000, 2500, "mundo")}

AlignSegmentArgs ==
    {Segment(1500, 2500), Segment(0, 1000),
     [Segment(1500, 2500) EXCEPT !.text = "old", !.texts = [l \in {"en"} |-> "old"]]}

SubtitleMappings ==
    LET en == SeqsUpTo(CaptionsOf("en"), MaxCaptions)
        es == SeqsUpTo(CaptionsOf("es"), MaxCaptions)
        item(l, subs) == [lang |-> l, subs |-> subs]
    IN  {<< >>}
          \cup {<<item("en", a)>> : a \in en}
          \cup {<<item("es", b)>> : b \in es}
          \cup {<<item("en", a), item("es", b)>> : a \in en, b \in es}
          \cup {<<item("es", b), item("en", a)>> : a \in en, b \in es}

InitAlign ==
    /\ IdleSeg
    /\ IdleBuild
    /\ IdleServer
    /\ IdleChain
    /\ al_segments \in SeqsUpTo(AlignSegmentArgs, MaxAlignSegments)
    /\ \/ /\ api = "align_subtitles"
          /\ captions \in SeqsUpTo(CaptionsOf("en"), MaxCaptions)
          /\ subtitles = << >>
       \/ /\ api = "align_all_subtitles"
          /\ captions = << >>
          /\ subtitles \in SubtitleMappings
    /\ calls = 0
    /\ after_first = << >>
    /\ al_given = al_segments

NextAlign ==
    \/ AlignSubtitles
    \/ AlignAllSubtitles

SpecAlign == InitAlign /\ [][NextAlign]_vars

----------------------------------------------------------------------------
(* Properties of the subtitle aligner *)

AlIdx == 1..Len(al_segments)

HasOverlap(seg, subs) == \E j \in 1..Len(subs) : overlap(seg, subs[j]) > 0

\* the first caption, in list order, among those of greatest overlap
FirstGreatest(seg, subs) ==
    CHOOSE j \in 1..Len(subs) :
        /\ \A m \in 1..Len(subs) : overlap(seg, subs[m]) <= overlap(seg, subs[j])
        /\ \A m \in 1..(j - 1) : overlap(seg, subs[m]) < overlap(seg, subs[j])

ScenarioDCaptions == <<Caption(1000, 2000, "hello")>>

\* C9: after a call, every segment that some caption overlaps carries the text
\* of the caption of greatest overlap, the first such in list order
\* (align_subtitles: in text; align_all_subtitles: in texts[lang], per
\* language); Scenario D's segment gets "hello".
C9_GreatestOverlapFirstWins ==
    calls >= 1 =>
        \A k \in AlIdx :
            LET seg == al_segments[k]
            IN  /\ api = "align_subtitles" =>
                    /\ HasOverlap(seg, captions) =>
                         seg.text = captions[FirstGreatest(seg, captions)].text
                    /\ ( /\ captions = ScenarioDCaptions
                         /\ seg.start_ms = 1500
                         /\ seg.end_ms = 2500 ) =>
                         seg.text = "hello"
                /\ api = "align_all_subtitles" =>
                    \A n \in 1..Len(subtitles) :
                        LET lang == subtitles[n].lang
                            subs == subtitles[n].subs
                        IN  HasOverlap(seg, subs) =>
                              /\ lang \in DOMAIN seg.texts
                              /\ seg.texts[lang] = subs[FirstGreatest(seg, subs)].text

\* C9 witness: align_subtitles has run on Scenario D's segment with Scenario
\* D's caption followed by a caption of the same overlap (500 ms); the first
\* one's text was assigned.
C9_Witness ==
    /\ api = "align_subtitles"
    /\ calls = 1
    /\ captions = <<Caption(1000, 2000, "hello"), Caption(2000, 2500, "world")>>
    /\ Len(al_segments) = 1
    /\ al_segments[1].start_ms = 1500 /\ al_segments[1].end_ms = 2500
    /\ al_segments[1].text = "hello"

\* C10: a second call with the same captions leaves every segment's text and
\* texts as the first call left them.
C10_AlignIdempotent ==
    calls >= 2 =>
        /\ Len(al_segments) = Len(after_first)
        /\ \A k \in AlIdx :
              /\ al_segments[k].text = after_first[k].text
              /\ al_segments[k].texts = after_first[k].texts

\* C10 witness: align_all_subtitles has run twice with two languages, and the
\* first segment carries text and an entry of texts for each language.
C10_Witness ==
    /\ api = "align_all_subtitles"
    /\ calls = 2
    /\ Len(subtitles) = 2
    /\ Len(al_segments) >= 1
    /\ al_segments[1].text \notin {"", "old"}
    /\ DOMAIN al_segments[1].texts = {"en", "es"}

\* no caption of the list overlaps the segment by more than 0 ms
NoPositiveOverlap(seg, subs) ==
    \A j \in 1..Len(subs) :
        Min(seg.end_ms, subs[j].end_ms) - Max(seg.start_ms, subs[j].start_ms) <= 0

\* the segment as segment_audio makes it: no text, no entry of texts
Untexted(seg) == seg.text = "" /\ seg.texts = << >>

\* C15: a segment that no caption of a language overlaps by more than 0 ms
\* (an empty caption list included) is assigned nothing for that language:
\* align_subtitles leaves its text, and align_all_subtitles its texts entry
\* for the language, as the segment came; a segment that came from the
\* detector has an empty text, and no entry for that language, after the call.
C15_ZeroOverlapNoText ==
    calls >= 1 =>
        \A k \in AlIdx :
            LET seg   == al_segments[k]
                given == al_given[k]
            IN  /\ (api = "align_subtitles" /\ NoPositiveOverlap(seg, captions)) =>
                    /\ seg.text = given.text
                    /\ Untexted(given) => seg.text = ""
                /\ api = "align_all_subtitles" =>
                    \A n \in 1..Len(subtitles) :
                        LET lang == subtitles[n].lang
                        IN  NoPositiveOverlap(seg, subtitles[n].subs) =>
                              /\ lang \in DOMAIN seg.texts <=> lang \in DOMAIN given.texts
                              /\ lang \in DOMAIN given.texts =>
                                    seg.texts[lang] = given.texts[lang]
                              /\ Untexted(given) => lang \notin DOMAIN seg.texts

\* C15 witness: align_all_subtitles has run on a segment from the detector
\* with a first language none of whose captions overlaps it and a second
\* language one of whose captions does; only the second has an entry.
C15_Witness ==
    /\ api = "align_all_subtitles"
    /\ calls = 1
    /\ Len(subtitles) = 2
    /\ subtitles[1].lang = "es" /\ subtitles[1].subs # << >>
    /\ Len(al_segments) >= 1
    /\ Untexted(al_given[1])
    /\ NoPositiveOverlap(al_segments[1], subtitles[1].subs)
    /\ DOMAIN al_segments[1].texts = {"en"}

\* the entry of a dict for a key, as a sequence: empty when the key is absent
EntryOf(texts, lang) == IF lang \in DOMAIN texts THEN <<texts[lang]>> ELSE << >>

\* C16: after align_all_subtitles, the entry texts[lang] of a segment is
\* determined by that language's caption list alone, whatever the other
\* languages of the mapping are, and the text of every segment is texts[L]
\* for the first language L of the mapping (for a segment from the detector
\* that has no entry for L, the text is empty like that entry).
C16_PerLanguageAndFirstText ==
    (api = "align_all_subtitles" /\ calls >= 1) =>
        \A k \in AlIdx :
            LET seg   == al_segments[k]
                given == al_given[k]
            IN  /\ \A n \in 1..Len(subtitles) :
                      LET lang == subtitles[n].lang
                          subs == subtitles[n].subs
                      IN  EntryOf(seg.texts, lang) =
                            IF NoPositiveOverlap(seg, subs)
                            THEN EntryOf(given.texts, lang)
                            ELSE <<subs[FirstGreatest(seg, subs)].text>>
                /\ subtitles # << >> =>
                      LET L == subtitles[1].lang
                      IN  /\ L \in DOMAIN seg.texts => seg.text = seg.texts[L]
                          /\ (L \notin DOMAIN seg.texts /\ Untexted(given)) =>
                                seg.text = ""

\* C16 witness: align_all_subtitles has run with the mapping es, en on a
\* segment that captions of both overlap; text is the es entry, not the en one.
C16_Witness ==
    /\ api = "align_all_subtitles"
    /\ calls = 1
    /\ Len(subtitles) = 2
    /\ subtitles[1].lang = "es"
    /\ Len(al_segments) >= 1
    /\ DOMAIN al_segments[1].texts = {"en", "es"}
    /\ al_segments[1].texts["es"] # al_segments[1].texts["en"]
    /\ al_segments[1].text = al_segments[1].texts["es"]

\* the languages of the subtitles mapping
MappingLangs(items) == { items[n].lang : n \in 1..Len(items) }

\* C27: a call of align_subtitles or align_all_subtitles leaves the number
\* and order of the segments and every start_ms and end_ms as they were, does
\* not modify the caption lists, and leaves every entry of texts for a
\* language that is not in the caption mapping as it was (align_subtitles:
\* the whole of texts).
C27_OnlyTextFieldsChange ==
    [][calls' = calls + 1 =>
          /\ captions' = captions
          /\ subtitles' = subtitles
          /\ Len(al_segments') = Len(al_segments)
          /\ \A k \in AlIdx :
                LET before == al_segments[k]
                    after  == al_segments'[k]
                    langs  == IF api = "align_all_subtitles"
                              THEN MappingLangs(subtitles) ELSE {}
                IN  /\ after.start_ms = before.start_ms
                    /\ after.end_ms = before.end_ms
                    /\ DOMAIN after.texts \subseteq DOMAIN before.texts \cup langs
                    /\ \A lang \in DOMAIN before.texts \ langs :
                          /\ lang \in DOMAIN after.texts
                          /\ after.texts[lang] = before.texts[lang]
      ]_vars

\* C27 witness: align_all_subtitles has run with a mapping of es alone on a
\* segment that came with an en entry; the entry is still there beside the
\* new es one, and the times are those given.
C27_Witness ==
    /\ api = "align_all_subtitles"
    /\ calls = 1
    /\ MappingLangs(subtitles) = {"es"}
    /\ Len(al_segments) = 2
    /\ DOMAIN al_given[2].texts = {"en"}
    /\ DOMAIN al_segments[2].texts = {"en", "es"}
    /\ al_segments[2].texts["en"] = al_given[2].texts["en"]
    /\ al_segments[2].start_ms = al_given[2].start_ms
    /\ al_segments[2].end_ms = al_given[2].end_ms

\* C28 (as claimed): after align_subtitles returns, a segment's text is
\* non-empty only if some caption of the given list overlaps the segment by
\* more than 0 ms, also for segments that came with text.  The code assigns
\* only when there is an overlap and otherwise leaves the text it was given.
C28_TextOnlyFromOverlap ==
    (api = "align_subtitles" /\ calls >= 1) =>
        \A k \in AlIdx :
            al_segments[k].text # "" => ~NoPositiveOverlap(al_segments[k], captions)

----------------------------------------------------------------------------
(* Properties of the detector's segments as the builder uses them *)

\* C26: every returned segment has start_ms and end_ms that are whole
\* multiples of the frame duration with 0 <= start_ms < end_ms <= number of
\* classified frames x 30, so extract_segment_pcm on the same buffer returns
\* exactly duration_ms x 32 bytes, the length of the silence block that
\* build_practice_audio makes for the user's turn.
C26_SegmentsInsideBuffer ==
    Returned =>
        \A k \in SegIdx :
            LET seg == segments[k]
            IN  /\ seg.start_ms % FRAME_DURATION_MS = 0
                /\ seg.end_ms % FRAME_DURATION_MS = 0
                /\ 0 <= seg.start_ms
                /\ seg.start_ms < seg.end_ms
                /\ seg.end_ms <= NumFrames * FRAME_DURATION_MS
                /\ ByteLen(extract_segment_pcm(pcm_bytes, seg.start_ms, seg.end_ms))
                      = duration_ms(seg) * 32
                /\ ByteLen(extract_segment_pcm(pcm_bytes, seg.start_ms, seg.end_ms))
                      = ByteLen(silence(duration_ms(seg)))

\* C26 witness: two segments returned, the second ending with the last byte
\* of the buffer.
C26_Witness ==
    /\ Returned
    /\ Len(segments) = 2
    /\ segments[2].end_ms * 32 = pcm_bytes
    /\ ByteLen(extract_segment_pcm(pcm_bytes, segments[2].start_ms,
                                   segments[2].end_ms)) > 0

----------------------------------------------------------------------------
(* server.py: the registry entry of one audio_id, the /api/process and     *)
(* /api/segment/{audio_id}/{index} handlers, and the per-segment cache     *)
(* files.  The handlers are plain `def` functions, which the framework     *)
(* runs on worker threads, so requests interleave between their accesses   *)
(* to audio_registry and to the cache files: each such access is one       *)
(* action.  A PCM buffer is modelled by the speed it was made at and its   *)
(* length in bytes.                                                        *)

Recordings == {"talk", "quiet"}

\* len(load_audio_as_pcm(path)): 81 frames of "talk", 33 frames of "quiet"
loaded_bytes(rec) == IF rec = "talk" THEN 81 * frame_size ELSE 33 * frame_size

\* segment_audio(pcm_data, preset) on the two recordings: "talk" is 67 speech
\* frames, one non-speech frame and 13 speech frames; "quiet" has no speech
segment_audio_result(rec, p) ==
    IF rec = "quiet" THEN << >>
    ELSE IF p = "words" THEN <<Segment(0, 2010), Segment(1890, 2430)>>
    ELSE <<Segment(0, 2430)>>

\* change_speed(pcm_data, speed): the buffer itself at speed 1, else the
\* recording played speed times faster
change_speed(pcm, speed) ==
    IF speed = 1 THEN pcm
    ELSE [speed |-> pcm.speed * speed, bytes |-> 2 * ((pcm.bytes \div 2) \div speed)]

\* seg.start_ms = int(seg.start_ms / req.speed), and end_ms likewise
rescaled(segs, speed) ==
    [k \in 1..Len(segs) |->
        [segs[k] EXCEPT !.start_ms = segs[k].start_ms \div speed,
                        !.end_ms = segs[k].end_ms \div speed]]

\* the segments and the buffer a process request holds at line 230
processed(rec, p, speed) ==
    LET pcm_data == [speed |-> 1, bytes |-> loaded_bytes(rec)]
        found    == segment_audio_result(rec, p)
    IN  IF speed # 1
        THEN [segments |-> rescaled(found, speed),
              pcm_data |-> change_speed(pcm_data, speed)]
        ELSE [segments |-> found, pcm_data |-> pcm_data]

\* the frames written to a cache file: extract_segment_pcm(pcm_data, ...)
segment_wav(pcm, seg) ==
    LET chunk == extract_segment_pcm(pcm.bytes, seg.start_ms, seg.end_ms)[1]
    IN  [speed |-> pcm.speed, from |-> chunk.from, bytes |-> chunk.bytes]

\* `not x` for an entry.get() result: None, an empty list or empty bytes
falsy_segments(got) == got = << >> \/ got[1] = << >>
falsy_pcm(got) == got = << >> \/ got[1].bytes = 0

MaxProcess == 2
MaxGets == 2

ServerPresets == {"sentences", "words"}
Speeds == {1, 2}
Indexes == {-1, 0, 1, 2}

ProcessSlots == 1..MaxProcess

NoLocals == [pc |-> "request", segments |-> << >>, pcm_data |-> << >>]

\* upload_audio / youtube_download: audio_registry[audio_id] = {...}, an
\* entry without the keys 'segments' and 'pcm_data'
Register ==
    /\ get.pc # "off" /\ ~registered
    /\ registered' = TRUE
    /\ UNCHANGED <<audio, reg_segments, reg_pcm, cache, proc, get, gets_started>>
    /\ UNCHANGED nonServerVars

\* process_audio, lines 184-230: the source is resolved (400 when the id is
\* not in the registry), the audio is loaded, segmented, sped up, built and
\* exported, all on the request's own objects
ProcessCompute(r) ==
    /\ proc[r].pc = "request"
    /\ \E p \in ServerPresets, speed \in Speeds :
          proc' = [proc EXCEPT ![r] =
                     IF registered
                     THEN [pc |-> "store_segments",
                           segments |-> <<processed(audio, p, speed).segments>>,
                           pcm_data |-> <<processed(audio, p, speed).pcm_data>>]
                     ELSE [NoLocals EXCEPT !.pc = "failed"]]
    /\ UNCHANGED <<registered, audio, reg_segments, reg_pcm, cache, get,
                   gets_started>>
    /\ UNCHANGED nonServerVars

\* line 232: audio_registry[req.audio_id]['segments'] = segments
ProcessStoreSegments(r) ==
    /\ proc[r].pc = "store_segments"
    /\ reg_segments' = proc[r].segments
    /\ proc' = [proc EXCEPT ![r].pc = "store_pcm"]
    /\ UNCHANGED <<registered, audio, reg_pcm, cache, get, gets_started>>
    /\ UNCHANGED nonServerVars

\* line 233: audio_registry[req.audio_id]['pcm_data'] = pcm_data, then the
\* response
ProcessStorePcm(r) ==
    /\ proc[r].pc = "store_pcm"
    /\ reg_pcm' = proc[r].pcm_data
    /\ proc' = [proc EXCEPT ![r].pc = "done"]
    /\ UNCHANGED <<registered, audio, reg_segments, cache, get, gets_started>>
    /\ UNCHANGED nonServerVars

IdleGet ==
    [pc |-> "ready", index |-> 0, segments |-> << >>, pcm_data |-> << >>,
     status |-> "", body |-> << >>]

\* get_segment, lines 277-280: a request arrives; 404 when the id is not in
\* the registry, else entry = audio_registry[audio_id]
GetLookup ==
    /\ get.pc \in {"ready", "done"} /\ gets_started < MaxGets
    /\ gets_started' = gets_started + 1
    /\ \E index \in Indexes :
          get' = IF registered
                 THEN [IdleGet EXCEPT !.pc = "read_segments", !.index = index]
                 ELSE [IdleGet EXCEPT !.pc = "done", !.index = index,
                                      !.status = "404 Audio not found"]
    /\ UNCHANGED <<registered, audio, reg_segments, reg_pcm, cache, proc>>
    /\ UNCHANGED nonServerVars

\* line 281: segments = entry.get('segments')
GetReadSegments ==
    /\ get.pc = "read_segments"
    /\ get' = [get EXCEPT !.pc = "read_pcm", !.segments = reg_segments]
    /\ UNCHANGED <<registered, audio, reg_segments, reg_pcm, cache, proc,
                   gets_started>>
    /\ UNCHANGED nonServerVars

\* line 282: pcm_data = entry.get('pcm_data')
GetReadPcm ==
    /\ get.pc = "read_pcm"
    /\ get' = [get EXCEPT !.pc = "check", !.pcm_data = reg_pcm]
    /\ UNCHANGED <<registered, audio, reg_segments, reg_pcm, cache, proc,
                   gets_started>>
    /\ UNCHANGED nonServerVars

\* cache_path.exists()
cache_exists(files, index) == files[index] # << >>

\* lines 283-289: the two rejections, then "Check cache"
GetCheck ==
    /\ get.pc = "check"
    /\ get' =
         IF falsy_segments(get.segments) \/ falsy_pcm(get.pcm_data)
         THEN [get EXCEPT !.pc = "done", !.status = "400 Audio not processed yet"]
         ELSE IF get.index < 0 \/ get.index >= Len(get.segments[1])
         THEN [get EXCEPT !.pc = "done", !.status = "404 Segment index out of range"]
         ELSE IF cache_exists(cache, get.index)
         THEN [get EXCEPT !.pc = "send"]
         ELSE [get EXCEPT !.pc = "write"]
    /\ UNCHANGED <<registered, audio, reg_segments, reg_pcm, cache, proc,
                   gets_started>>
    /\ UNCHANGED nonServerVars

\* lines 290-296: the slice is extracted and written to the cache file;
\* segments[index] is list index index + 1 here
GetWriteCache ==
    /\ get.pc = "write"
    /\ cache' = [cache EXCEPT ![get.index] =
                    <<segment_wav(get.pcm_data[1], get.segments[1][get.index + 1])>>]
    /\ get' = [get EXCEPT !.pc = "send"]
    /\ UNCHANGED <<registered, audio, reg_segments, reg_pcm, proc, gets_started>>
    /\ UNCHANGED nonServerVars

\* lines 298-299: FileResponse(cache_path): the file as it is now is sent
GetSend ==
    /\ get.pc = "send"
    /\ get' = [get EXCEPT !.pc = "done", !.status = "200",
                          !.body = cache[get.index]]
    /\ UNCHANGED <<registered, audio, reg_segments, reg_pcm, cache, proc,
                   gets_started>>
    /\ UNCHANGED nonServerVars

InitServer ==
    /\ IdleSeg
    /\ IdleBuild
    /\ IdleAlign
    /\ IdleChain
    /\ registered = FALSE
    /\ audio \in Recordings
    /\ reg_segments = << >>
    /\ reg_pcm = << >>
    /\ cache = [index \in Indexes |-> << >>]
    /\ proc = [r \in ProcessSlots |-> NoLocals]
    /\ get = IdleGet
    /\ gets_started = 0

NextServer ==
    \/ Register
    \/ \E r \in ProcessSlots : ProcessCompute(r)
    \/ \E r \in ProcessSlots : ProcessStoreSegments(r)
    \/ \E r \in ProcessSlots : ProcessStorePcm(r)
    \/ GetLookup
    \/ GetReadSegments
    \/ GetReadPcm
    \/ GetCheck
    \/ GetWriteCache
    \/ GetSend

SpecServer == InitServer /\ [][NextServer]_vars

----------------------------------------------------------------------------
(* Properties of the server *)

\* no /api/process request is between its first and its last step
NoProcessInFlight ==
    \A r \in ProcessSlots : proc[r].pc \in {"request", "failed", "done"}

\* C29 (as claimed): a /api/segment response with a file, sent while no
\* /api/process request is in flight, carries the slice [start_ms, end_ms) of
\* the index-th segment now stored in the registry, cut from the buffer now
\* stored there.  The cache file of an index, once written, is sent for every
\* later request of that index, whatever was processed since.
C29_SegmentFromLatestProcess ==
    [][( /\ get.pc = "send"
         /\ get'.pc = "done"
         /\ NoProcessInFlight
         /\ get.segments = reg_segments
         /\ get.pcm_data = reg_pcm ) =>
          get'.body = <<segment_wav(reg_pcm[1], reg_segments[1][get.index + 1])>>
      ]_vars

\* some process request ends with these segments and this buffer
FromOneRequest(segs, pcm) ==
    \E p \in ServerPresets, speed \in Speeds :
        /\ segs = processed(audio, p, speed).segments
        /\ pcm = processed(audio, p, speed).pcm_data

\* C30 (as claimed): the segments and the buffer that get_segment has read,
\* and those left in the registry when no process request is in flight, are
\* the result of one and the same process request.  The two stores of
\* process_audio, and the two reads of get_segment, are separate steps.
C30_SegmentsAndPcmFromOneRequest ==
    /\ ( /\ get.pc \in {"check", "write", "send"}
         /\ get.segments # << >>
         /\ get.pcm_data # << >> ) =>
            FromOneRequest(get.segments[1], get.pcm_data[1])
    /\ ( /\ NoProcessInFlight
         /\ reg_segments # << >>
         /\ reg_pcm # << >> ) =>
            FromOneRequest(reg_segments[1], reg_pcm[1])

\* some /api/process request for the audio_id has completed
SomeProcessCompleted == \E r \in ProcessSlots : proc[r].pc = "done"

\* C31 (as claimed): a /api/segment request is answered 404 'Audio not found'
\* exactly when the audio_id is not in the registry, 400 'Audio not processed
\* yet' only when no /api/process request has completed for the audio_id, and
\* 404 'Segment index out of range' when the index is below 0 or not below
\* the number of segments; looked at on the step that answers, for a request
\* that has read what the registry holds while no process request is in
\* flight.  After a processing run that found no segments the code answers
\* 'not processed yet', since `not segments` holds for an empty list.
C31_SegmentRequestProtocol ==
    [][( /\ get' # get
         /\ get'.pc = "done"
         /\ NoProcessInFlight
         /\ get.pc = "check" => (get.segments = reg_segments /\ get.pcm_data = reg_pcm) ) =>
          /\ get'.status = "404 Audio not found" <=> ~registered
          /\ get'.status = "400 Audio not processed yet" => ~SomeProcessCompleted
          /\ ( /\ registered
               /\ SomeProcessCompleted
               /\ get'.index < 0 \/ get'.index >= Len(reg_segments[1]) ) =>
                get'.status = "404 Segment index out of range"
          /\ get'.status = "404 Segment index out of range" =>
                get'.index < 0 \/ get'.index >= Len(reg_segments[1])
      ]_vars

(***************************************************************************)
(* exporter.change_speed and _build_atempo_chain.  A float is modelled by  *)
(* the fraction num/den it holds, den >= 0: halving and doubling a float   *)
(* are exact.  A den of 0 stands for an infinity of the sign of num, which *)
(* a float division gives once the magnitude passes the largest finite     *)
(* float; MaxFloat is that magnitude, scaled down.  Each entry of          *)
(* `filters` is modelled by the factor its string carries, in              *)
(* ten-thousandths (the digits `:.4f` prints).  `filters` keeps its first  *)
(* MaxFilters entries: neither loop reads the list, and what either loop   *)
(* appends past that point repeats the entry before it.                    *)
(***************************************************************************)

\* the largest finite magnitude of a float, scaled down
MaxFloat == 64

\* entries of `filters` that are kept
MaxFilters == 4

\* the speeds passed are multiples of 1 / SpeedDen
SpeedDen == 10

\* the largest speed passed is MaxSpeedNum / SpeedDen
MaxSpeedNum == 85

\* f'{x:.4f}' prints ten-thousandths
TenThousand == 10000

Float(n, d) == [num |-> n, den |-> d]

\* a > b and a < b of two floats
float_gt(a, b) == a.num * b.den > b.num * a.den
float_lt(a, b) == a.num * b.den < b.num * a.den

sign(n) == IF n > 0 THEN 1 ELSE IF n < 0 THEN -1 ELSE 0

magnitude(n) == IF n < 0 THEN -n ELSE n

\* the float a division leaves: an infinity past the largest finite float
overflowed(x) ==
    IF x.den = 0 \/ magnitude(x.num) > MaxFloat * x.den
    THEN Float(sign(x.num), 0)
    ELSE x

\* a / b, b a positive finite float
float_div(a, b) == overflowed(Float(a.num * b.den, a.den * b.num))

\* f'{x:.4f}' of a finite float: the nearest count of ten-thousandths, a tie
\* going to the even one
format_4f(x) ==
    LET n == x.num * TenThousand
        q == n \div x.den
        r == n % x.den
    IN  IF 2 * r > x.den \/ (2 * r = x.den /\ q % 2 = 1) THEN q + 1 ELSE q

\* the factors in 'atempo=2.0' and 'atempo=0.5'
atempo_2_0 == 2 * TenThousand
atempo_0_5 == TenThousand \div 2

\* filters.append(f)
appended(fs, f) == IF Len(fs) < MaxFilters THEN Append(fs, f) ELSE fs

\* change_speed: `if speed == 1.0: return pcm_data`
ReturnUnchanged ==
    /\ chain_pc = "change_speed"
    /\ chain_speed.num = chain_speed.den
    /\ chain_pc' = "unchanged"
    /\ UNCHANGED <<chain_speed, remaining, filters>>
    /\ UNCHANGED nonChainVars

\* change_speed reaches `filters = _build_atempo_chain(speed)`, which sets
\* filters = [] and remaining = speed
BuildChain ==
    /\ chain_pc = "change_speed"
    /\ chain_speed.num # chain_speed.den
    /\ filters' = << >>
    /\ remaining' = chain_speed
    /\ chain_pc' = "fast"
    /\ UNCHANGED chain_speed
    /\ UNCHANGED nonChainVars

\* `while remaining > 2.0` finds its condition true
FastEnter ==
    /\ chain_pc = "fast"
    /\ float_gt(remaining, Float(2, 1))
    /\ chain_pc' = "fast_body"
    /\ UNCHANGED <<chain_speed, remaining, filters>>
    /\ UNCHANGED nonChainVars

\* its body: filters.append('atempo=2.0'); remaining /= 2.0
FastBody ==
    /\ chain_pc = "fast_body"
    /\ filters' = appended(filters, atempo_2_0)
    /\ remaining' = float_div(remaining, Float(2, 1))
    /\ chain_pc' = "fast"
    /\ UNCHANGED chain_speed
    /\ UNCHANGED nonChainVars

\* `while remaining > 2.0` ends
FastExit ==
    /\ chain_pc = "fast"
    /\ ~float_gt(remaining, Float(2, 1))
    /\ chain_pc' = "slow"
    /\ UNCHANGED <<chain_speed, remaining, filters>>
    /\ UNCHANGED nonChainVars

\* `while remaining < 0.5` finds its condition true
SlowEnter ==
    /\ chain_pc = "slow"
    /\ float_lt(remaining, Float(1, 2))
    /\ chain_pc' = "slow_body"
    /\ UNCHANGED <<chain_speed, remaining, filters>>
    /\ UNCHANGED nonChainVars

\* its body: filters.append('atempo=0.5'); remaining /= 0.5
SlowBody ==
    /\ chain_pc = "slow_body"
    /\ filters' = appended(filters, atempo_0_5)
    /\ remaining' = float_div(remaining, Float(1, 2))
    /\ chain_pc' = "slow"
    /\ UNCHANGED chain_speed
    /\ UNCHANGED nonChainVars

\* `while remaining < 0.5` ends
SlowExit ==
    /\ chain_pc = "slow"
    /\ ~float_lt(remaining, Float(1, 2))
    /\ chain_pc' = "last"
    /\ UNCHANGED <<chain_speed, remaining, filters>>
    /\ UNCHANGED nonChainVars

\* filters.append(f'atempo={remaining:.4f}'); return ','.join(filters)
LastAppend ==
    /\ chain_pc = "last"
    /\ filters' = appended(filters, format_4f(remaining))
    /\ chain_pc' = "built"
    /\ UNCHANGED <<chain_speed, remaining>>
    /\ UNCHANGED nonChainVars

\* the speeds a request or the command line passes: any number, 0 and
\* negative ones included
ChainSpeeds == {Float(n, SpeedDen) : n \in (-(2 * SpeedDen))..MaxSpeedNum}

InitChain ==
    /\ IdleSeg
    /\ IdleBuild
    /\ IdleAlign
    /\ IdleServer
    /\ chain_speed \in ChainSpeeds
    /\ remaining = chain_speed
    /\ filters = << >>
    /\ chain_pc = "change_speed"

NextChain ==
    \/ ReturnUnchanged
    \/ BuildChain
    \/ FastEnter
    \/ FastBody
    \/ FastExit
    \/ SlowEnter
    \/ SlowBody
    \/ SlowExit
    \/ LastAppend

SpecChain == InitChain /\ [][NextChain]_vars

\* change_speed runs on one thread, which keeps taking its next step
SpecChainFair == SpecChain /\ WF_vars(NextChain)

(***************************************************************************)
(* Properties of change_speed                                              *)
(***************************************************************************)

\* every factor in `filters` lies in [0.5, 2.0]
FactorsInRange ==
    \A k \in 1..Len(filters) : atempo_0_5 <= filters[k] /\ filters[k] <= atempo_2_0

\* C32 (as claimed): for every speed passed to change_speed, 0 and negative
\* ones included, the call gets past _build_atempo_chain, and every factor
\* the chain holds lies in [0.5, 2.0].  For a speed of 0 or below,
\* `remaining / 0.5` never reaches 0.5 and `while remaining < 0.5` runs on.
C32_ChainTerminatesInRange ==
    /\ <>(chain_pc \in {"built", "unchanged"})
    /\ []FactorsInRange


====
